---- MODULE Spec2Model ----
(***************************************************************************)
(* WiFi provisioning state machine of the gateway (wifi-setup):            *)
(* isWiFiConfigured, waitForWiFi, scan, startAP / stopAP / defineNetwork   *)
(* and the /connecting form handler, run against a platform adapter and a  *)
(* settings store whose answers are chosen nondeterministically.           *)
(***************************************************************************)
EXTENDS Integers, Sequences, FiniteSets, TLC

(* ---------------------------------------------------------------- bounds *)
\* largest maxAttempts a direct caller of waitForWiFi passes
MaxAttemptsArg == 3
\* longest result list Platform.scanWirelessNetworks returns
MaxScanLen == 1

(* ------------------------------------------------------ program constants *)
WAIT_ATTEMPTS == 20
WAIT_INTERVAL == 3000
SCAN_MAX_ATTEMPTS == 5
SCAN_INTERVAL == 3000
RESPONSE_DELAY == 2000
SETTLE_DELAY == 5000

(* ------------------------------------------------------------ value sets *)
Procs == {"recon", "conn1", "conn2", "scan", "wait"}
ConnProcs == {"conn1", "conn2"}
WaitCallers == {"recon", "conn1", "conn2", "wait"}
Ssids == {"home", "office"}
Modes == {"sta", "ap", "none"}
Intervals == {1000, 3000}

\* os.networkInterfaces(): entries of one interface
V4Ext == [family |-> "IPv4", internal |-> FALSE]
V4Int == [family |-> "IPv4", internal |-> TRUE]
V6Ext == [family |-> "IPv6", internal |-> FALSE]
Loopback == [lo |-> <<V4Int>>]
AddrLists == {<<>>, <<V4Int>>, <<V6Ext>>, <<V4Ext>>, <<V6Ext, V4Ext>>}
IfaceChoices == {Loopback} \cup {[lo |-> <<V4Int>>, wlan0 |-> s] : s \in AddrLists}

\* WirelessNetwork scan results
ScanNets == {[ssid |-> s, encryption |-> e] : s \in {"home"}, e \in BOOLEAN}
ScanOutcomes == UNION {[1..n -> ScanNets] : n \in 0..MaxScanLen}

VARIABLES
  wifiskip,   \* settings store entry 'wifiskip': "absent", "true" or "false"
  plat,       \* platform: [enabled, mode, networks, dhcp]
  ifaces,     \* os.networkInterfaces()
  proc        \* per invocation: control position, locals and call log

vars == <<wifiskip, plat, ifaces, proc>>

E(name) == [ev |-> name, ms |-> 0]
T(name, ms) == [ev |-> name, ms |-> ms]
\* a function returned: "<name>:ok" for true, "<name>:failed" for false
Ret(name, ok) == E(IF ok THEN name \o ":ok" ELSE name \o ":failed")

Fresh(pc0) ==
  [pc |-> pc0, attempts |-> 0, maxAttempts |-> 0, interval |-> 0,
   st |-> "none", obs |-> "none", log |-> <<>>, result |-> "none",
   apAtCall |-> FALSE, flagAtCall |-> "absent", marker |-> FALSE, lan |-> FALSE, skip |-> FALSE, ssid |-> "home",
   returned |-> <<>>, nets |-> <<>>]

(* ------------------------------------------------------ platform adapter *)
\* Platform.setWirelessMode(enabled, mode, options): ok is the value returned
setWirelessMode(P, ok, enabled, mode, ssid) ==
  IF ~ok THEN P
  ELSE IF enabled /\ mode = "ap" THEN [P EXCEPT !.enabled = TRUE, !.mode = "ap"]
  ELSE IF enabled /\ mode = "sta"
    THEN [P EXCEPT !.enabled = TRUE, !.mode = "sta", !.networks = @ \cup {ssid}]
  ELSE IF P.mode = mode THEN [P EXCEPT !.enabled = FALSE, !.mode = "none"]
  ELSE P

\* Platform.setDhcpServerStatus(enabled)
setDhcpServerStatus(P, ok, enabled) ==
  IF ok THEN [P EXCEPT !.dhcp = enabled] ELSE P

(* ------------------------------------------------- access point lifecycle *)
\* Each returns [plat: the platform afterwards, ret: the value returned,
\* ev: the calls made, in order]. ok1, ok2 are the platform's answers.
\* variant: stops station mode before starting the access point
startAPStopsStation(P, ok1, ok2) ==
  LET P0 == setWirelessMode(P, TRUE, FALSE, "sta", "home")
      P1 == setWirelessMode(P0, ok1, TRUE, "ap", "home")
  IN IF ~ok1
       THEN [plat |-> P1, ret |-> FALSE,
             ev |-> <<E("startAP"), E("setWirelessMode:sta:off"),
                      E("setWirelessMode:ap:on"), Ret("startAP", FALSE)>>]
       ELSE [plat |-> setDhcpServerStatus(P1, ok2, TRUE), ret |-> ok2,
             ev |-> <<E("startAP"), E("setWirelessMode:sta:off"),
                      E("setWirelessMode:ap:on"), E("setDhcp:on"),
                      Ret("startAP", ok2)>>]

startAP(P, ok1, ok2) ==
  LET P1 == setWirelessMode(P, ok1, TRUE, "ap", "home")
  IN IF ~ok1
       THEN [plat |-> P1, ret |-> FALSE,
             ev |-> <<E("startAP"), E("setWirelessMode:ap:on"), Ret("startAP", FALSE)>>]
       ELSE [plat |-> setDhcpServerStatus(P1, ok2, TRUE), ret |-> ok2,
             ev |-> <<E("startAP"), E("setWirelessMode:ap:on"), E("setDhcp:on"),
                      Ret("startAP", ok2)>>]

\* variant: the DHCP server is switched off whatever setWirelessMode returned
stopAPAlwaysDhcp(P, ok1, ok2) ==
  LET P1 == setWirelessMode(P, ok1, FALSE, "ap", "home")
  IN [plat |-> setDhcpServerStatus(P1, ok2, FALSE), ret |-> ok1 /\ ok2,
      ev |-> <<E("stopAP"), E("setWirelessMode:ap:off"), E("setDhcp:off"),
               Ret("stopAP", ok1 /\ ok2)>>]

stopAP(P, ok1, ok2) ==
  LET P1 == setWirelessMode(P, ok1, FALSE, "ap", "home")
  IN IF ~ok1
       THEN [plat |-> P1, ret |-> FALSE,
             ev |-> <<E("stopAP"), E("setWirelessMode:ap:off"), Ret("stopAP", FALSE)>>]
       ELSE [plat |-> setDhcpServerStatus(P1, ok2, FALSE), ret |-> ok2,
             ev |-> <<E("stopAP"), E("setWirelessMode:ap:off"), E("setDhcp:off"),
                      Ret("stopAP", ok2)>>]

defineNetwork(P, ok, ssid) ==
  [plat |-> setWirelessMode(P, ok, TRUE, "sta", ssid), ret |-> ok,
   ev |-> <<E("defineNetwork"), E("setWirelessMode:sta:on"), Ret("defineNetwork", ok)>>]

\* variant: stops the access point without looking
ensureAPStoppedAlways(P, ok1, ok2) ==
  LET r == stopAP(P, ok1, ok2)
  IN [plat |-> r.plat, ev |-> <<E("ensureAPStopped")>> \o r.ev]

\* variant: stops only when both the DHCP server and AP mode are on
ensureAPStoppedBoth(P, ok1, ok2) ==
  IF P.dhcp /\ P.mode = "ap"
    THEN LET r == stopAP(P, ok1, ok2)
         IN [plat |-> r.plat, ev |-> <<E("ensureAPStopped")>> \o r.ev]
    ELSE [plat |-> P, ev |-> <<E("ensureAPStopped")>>]

ensureAPStopped(P, ok1, ok2) ==
  IF P.dhcp \/ P.mode = "ap"
    THEN LET r == stopAP(P, ok1, ok2)
         IN [plat |-> r.plat, ev |-> <<E("ensureAPStopped")>> \o r.ev]
    ELSE [plat |-> P, ev |-> <<E("ensureAPStopped")>>]

(* ------------------------------------------------------------ waitForWiFi *)
\* the for loop of checkForAddress: is there an IPv4, non-internal entry
RECURSIVE HasUsableAddress(_)
HasUsableAddress(addrs) ==
  IF addrs = <<>> THEN FALSE
  ELSE IF Head(addrs).family # "IPv4" \/ Head(addrs).internal
    THEN HasUsableAddress(Tail(addrs))
  ELSE TRUE

\* variant: gives up one poll late (> for >=)
retryOrGiveUpLate(w) ==
  IF w.attempts > w.maxAttempts
    THEN [w EXCEPT !.st = "rejected"]
    ELSE [w EXCEPT !.st = "timer", !.log = Append(@, T("setTimeout", w.interval))]

retryOrGiveUp(w) ==
  IF w.attempts >= w.maxAttempts
    THEN [w EXCEPT !.st = "rejected"]
    ELSE [w EXCEPT !.st = "timer", !.log = Append(@, T("setTimeout", w.interval))]

\* variant: looks at the first address of wlan0 only
checkForAddressFirstOnly(w, nif) ==
  IF /\ "wlan0" \in DOMAIN nif
     /\ nif.wlan0 # <<>>
     /\ Head(nif.wlan0).family = "IPv4"
     /\ ~Head(nif.wlan0).internal
    THEN [w EXCEPT !.st = "resolved"]
    ELSE retryOrGiveUp(w)

checkForAddress(w, nif) ==
  IF "wlan0" \in DOMAIN nif /\ HasUsableAddress(nif.wlan0)
    THEN [w EXCEPT !.st = "resolved"]
    ELSE retryOrGiveUp(w)

\* what the platform shows at a poll: enabled station mode and an IPv4,
\* non-internal address on wlan0
Associated(P, nif) ==
  /\ P.enabled
  /\ P.mode = "sta"
  /\ "wlan0" \in DOMAIN nif
  /\ \E i \in 1..Len(nif.wlan0) :
        nif.wlan0[i].family = "IPv4" /\ ~nif.wlan0[i].internal

\* obs records what the platform showed at this poll
check(w, P, nif) ==
  LET w1 == [w EXCEPT !.attempts = @ + 1, !.log = Append(@, E("check")),
                      !.obs = IF Associated(P, nif) THEN "good" ELSE "bad"]
  IN IF P.enabled /\ P.mode = "sta"
       THEN checkForAddress(w1, nif)
       ELSE retryOrGiveUp(w1)

\* variant: polls even when no network is configured
waitForWiFiAlwaysPolls(w, maxAttempts, interval, P, nif) ==
  check([w EXCEPT !.attempts = 0, !.maxAttempts = maxAttempts,
                  !.interval = interval, !.obs = "none",
                  !.log = Append(@, E("waitForWiFi"))], P, nif)

\* the promise executor: runs in the caller's turn
waitForWiFi(w, maxAttempts, interval, P, nif) ==
  LET w0 == [w EXCEPT !.attempts = 0, !.maxAttempts = maxAttempts,
                      !.interval = interval, !.obs = "none",
                      !.log = Append(@, E("waitForWiFi"))]
  IN IF P.networks # {}
       THEN check(w0, P, nif)
       ELSE [w0 EXCEPT !.st = "rejected"]

(* ------------------------------------------------------------------ Init *)
PlatStates ==
  [enabled : BOOLEAN, mode : Modes, networks : SUBSET Ssids, dhcp : BOOLEAN]

InitOf(live) ==
  /\ wifiskip \in {"absent", "true", "false"}
  /\ plat \in PlatStates
  /\ ifaces \in IfaceChoices
  /\ proc = [p \in Procs |-> Fresh(IF p \in live THEN "idle" ELSE "off")]

(* ----------------------------------------------------------- environment *)
\* Outside the program the station association and the addresses of wlan0
\* come and go; access-point mode changes only through the adapter.
EnvAssociation ==
  /\ plat.mode # "ap"
  /\ \E e \in BOOLEAN, m \in {"sta", "none"} :
       /\ plat' = [plat EXCEPT !.enabled = e, !.mode = m]
       /\ plat' # plat
  /\ UNCHANGED <<wifiskip, ifaces, proc>>

EnvAddresses ==
  /\ \E i \in IfaceChoices \ {ifaces} : ifaces' = i
  /\ UNCHANGED <<wifiskip, plat, proc>>

\* the caller is done with an invocation; the operation may be invoked again
Return(p) ==
  /\ proc[p].pc = "done"
  /\ proc' = [proc EXCEPT ![p] = Fresh("idle")]
  /\ UNCHANGED <<wifiskip, plat, ifaces>>

(* ------------------------------------------- waitForWiFi, called directly *)
WaitCall ==
  /\ proc["wait"].pc = "idle"
  /\ \E m \in 1..MaxAttemptsArg, i \in Intervals :
       proc' = [proc EXCEPT !["wait"] =
                  waitForWiFi([@ EXCEPT !.pc = "waiting"], m, i, plat, ifaces)]
  /\ UNCHANGED <<wifiskip, plat, ifaces>>

\* a timer set by retryOrGiveUp fires: check() runs again
WaitTimerFire(p) ==
  /\ proc[p].pc = "waiting"
  /\ proc[p].st = "timer"
  /\ proc' = [proc EXCEPT ![p] = check(@, plat, ifaces)]
  /\ UNCHANGED <<wifiskip, plat, ifaces>>

WaitSettled ==
  /\ proc["wait"].pc = "waiting"
  /\ proc["wait"].st \in {"resolved", "rejected"}
  /\ proc' = [proc EXCEPT !["wait"].pc = "done", !["wait"].result = proc["wait"].st]
  /\ UNCHANGED <<wifiskip, plat, ifaces>>

(* ------------------------------------------------------ isWiFiConfigured *)
\* Settings.getSetting('wifiskip') is issued; its promise is pending
ReconCall ==
  /\ proc["recon"].pc = "idle"
  /\ proc' = [proc EXCEPT !["recon"].pc = "getSetting",
                          !["recon"].apAtCall = plat.dhcp \/ plat.mode = "ap",
                          !["recon"].flagAtCall = wifiskip,
                          !["recon"].log = Append(@, E("getSetting"))]
  /\ UNCHANGED <<wifiskip, plat, ifaces>>

\* Settings.getSetting: rejects when the key is absent
getSetting(stored) ==
  IF stored = "absent" THEN [rejected |-> TRUE, value |-> FALSE]
  ELSE [rejected |-> FALSE, value |-> (stored = "true")]

\* variant: the stored value is dropped
skippedOfDropped(r) == FALSE

\* variant: a failed read counts as the flag being set
skippedOfFailClosed(r) == IF r.rejected THEN TRUE ELSE r.value

\* .catch(() => false)
skippedOf(r) == IF r.rejected THEN FALSE ELSE r.value

\* one of the three early exits: ensureAPStopped(); resolve(true)
ReconShortCircuit(q, ok1, ok2) ==
  LET r == ensureAPStopped(plat, ok1, ok2)
  IN /\ plat' = r.plat
     /\ proc' = [proc EXCEPT !["recon"] =
                   [q EXCEPT !.pc = "done", !.result = "true", !.log = @ \o r.ev]]

\* the .then((skipped) => ...) callback; mk is fs.existsSync(marker file),
\* ln is whether Platform.getNetworkAddresses().lan is set
ReconSettled ==
  /\ proc["recon"].pc = "getSetting"
  /\ \E mk, ln, ok1, ok2 \in BOOLEAN :
       LET q == [proc["recon"] EXCEPT !.skip = skippedOf(getSetting(wifiskip)),
                                      !.marker = mk, !.lan = ln]
       IN IF q.skip THEN ReconShortCircuit(q, ok1, ok2)
          ELSE IF q.marker THEN ReconShortCircuit(q, ok1, ok2)
          ELSE IF q.lan THEN ReconShortCircuit(q, ok1, ok2)
          ELSE   /\ proc' = [proc EXCEPT !["recon"] =
                               waitForWiFi([q EXCEPT !.pc = "waiting"],
                                           WAIT_ATTEMPTS, WAIT_INTERVAL, plat, ifaces)]
                 /\ plat' = plat
  /\ UNCHANGED <<wifiskip, ifaces>>

\* variant: resolves true without ensureAPStopped
ReconWaitThenNoStop ==
  /\ proc["recon"].pc = "waiting"
  /\ proc["recon"].st = "resolved"
  /\ proc' = [proc EXCEPT !["recon"].pc = "done", !["recon"].result = "true"]
  /\ UNCHANGED <<wifiskip, plat, ifaces>>

\* waitForWiFi(...).then(() => { ensureAPStopped(); return true; })
ReconWaitThen ==
  /\ proc["recon"].pc = "waiting"
  /\ proc["recon"].st = "resolved"
  /\ \E ok1, ok2 \in BOOLEAN : ReconShortCircuit(proc["recon"], ok1, ok2)
  /\ UNCHANGED <<wifiskip, ifaces>>

\* variant: resolves with what startAP returned
ReconWaitCatchReturnsStart ==
  /\ proc["recon"].pc = "waiting"
  /\ proc["recon"].st = "rejected"
  /\ \E ok1, ok2 \in BOOLEAN :
       LET r == startAP(plat, ok1, ok2)
       IN /\ plat' = r.plat
          /\ proc' = [proc EXCEPT !["recon"].pc = "done",
                                  !["recon"].result = IF r.ret THEN "true" ELSE "false",
                                  !["recon"].log = @ \o r.ev]
  /\ UNCHANGED <<wifiskip, ifaces>>

\* variant: a failed startAP is thrown on
ReconWaitCatchThrows ==
  /\ proc["recon"].pc = "waiting"
  /\ proc["recon"].st = "rejected"
  /\ \E ok1, ok2 \in BOOLEAN :
       LET r == startAP(plat, ok1, ok2)
       IN /\ plat' = r.plat
          /\ proc' = [proc EXCEPT !["recon"].pc = "done",
                                  !["recon"].result = IF r.ret THEN "false" ELSE "rejected",
                                  !["recon"].log = @ \o r.ev]
  /\ UNCHANGED <<wifiskip, ifaces>>

\* .catch((err) => { startAP(...); return false; })
ReconWaitCatch ==
  /\ proc["recon"].pc = "waiting"
  /\ proc["recon"].st = "rejected"
  /\ \E ok1, ok2 \in BOOLEAN :
       LET r == startAP(plat, ok1, ok2)
       IN /\ plat' = r.plat
          /\ proc' = [proc EXCEPT !["recon"].pc = "done",
                                  !["recon"].result = "false",
                                  !["recon"].log = @ \o r.ev]
  /\ UNCHANGED <<wifiskip, ifaces>>

(* ------------------------------------------------------------------ scan *)
\* variant: gives up one call late (> for >=)
tryScanLate(s, results) ==
  LET s1 == [s EXCEPT !.attempts = @ + 1,
                      !.log = Append(@, E("scanWirelessNetworks"))]
  IN IF Len(results) > 0
       THEN [s1 EXCEPT !.st = "resolved", !.nets = results]
     ELSE IF s1.attempts > SCAN_MAX_ATTEMPTS
       THEN [s1 EXCEPT !.st = "resolved", !.nets = <<>>]
     ELSE [s1 EXCEPT !.st = "timer",
                     !.log = Append(@, T("setTimeout", SCAN_INTERVAL))]

\* one run of tryScan; results is what Platform.scanWirelessNetworks returned
tryScan(s, results) ==
  LET s1 == [s EXCEPT !.attempts = @ + 1,
                      !.log = Append(@, E("scanWirelessNetworks"))]
  IN IF Len(results) > 0
       THEN [s1 EXCEPT !.st = "resolved", !.nets = results]
     ELSE IF s1.attempts >= SCAN_MAX_ATTEMPTS
       THEN [s1 EXCEPT !.st = "resolved", !.nets = <<>>]
     ELSE [s1 EXCEPT !.st = "timer",
                     !.log = Append(@, T("setTimeout", SCAN_INTERVAL))]

\* handleWiFiSetup calls scan(), whose executor calls tryScan at once;
\* returned keeps what each call of Platform.scanWirelessNetworks returned
ScanCall ==
  /\ proc["scan"].pc = "idle"
  /\ \E results \in ScanOutcomes :
       proc' = [proc EXCEPT !["scan"] =
                  tryScan([@ EXCEPT !.pc = "scanning", !.attempts = 0,
                                    !.returned = <<results>>], results)]
  /\ UNCHANGED <<wifiskip, plat, ifaces>>

ScanTimerFire ==
  /\ proc["scan"].pc = "scanning"
  /\ proc["scan"].st = "timer"
  /\ \E results \in ScanOutcomes :
       proc' = [proc EXCEPT !["scan"] =
                  tryScan([@ EXCEPT !.returned = Append(@, results)], results)]
  /\ UNCHANGED <<wifiskip, plat, ifaces>>

\* scan().then((results) => response.render('wifi-setup', { networks }))
ScanRender ==
  /\ proc["scan"].pc = "scanning"
  /\ proc["scan"].st = "resolved"
  /\ proc' = [proc EXCEPT !["scan"].pc = "done",
                          !["scan"].result = "rendered",
                          !["scan"].log = Append(@, E("render"))]
  /\ UNCHANGED <<wifiskip, plat, ifaces>>

(* ------------------------------------------------------ handleConnecting *)
\* POST /connecting with body.skip and body.ssid
ConnSubmit(p) ==
  /\ proc[p].pc = "idle"
  /\ \E skip \in BOOLEAN, ssid \in Ssids :
       proc' = [proc EXCEPT ![p] =
         IF skip
           THEN [@ EXCEPT !.pc = "setSetting", !.skip = TRUE,
                          !.apAtCall = plat.dhcp \/ plat.mode = "ap",
                          !.log = Append(@, E("setSetting"))]
           ELSE [@ EXCEPT !.pc = "sleep2000", !.skip = FALSE, !.ssid = ssid,
                          !.apAtCall = plat.dhcp \/ plat.mode = "ap",
                          !.log = @ \o <<E("render"), T("sleep", RESPONSE_DELAY)>>]]
  /\ UNCHANGED <<wifiskip, plat, ifaces>>

\* variant: .then(render, stopAP, callback).catch(log), a failed write skips
\* the .then
ConnSkipSettledCatchLast(p) ==
  /\ proc[p].pc = "setSetting"
  /\ \E stored, ok1, ok2 \in BOOLEAN :
       LET r == IF stored THEN stopAP(plat, ok1, ok2)
                          ELSE [plat |-> plat, ret |-> FALSE, ev |-> <<>>]
       IN /\ wifiskip' = IF stored THEN "true" ELSE wifiskip
          /\ plat' = r.plat
          /\ proc' = [proc EXCEPT ![p].pc = "done", ![p].result = "connected",
                        ![p].log = @ \o (IF stored
                                           THEN <<E("render")>> \o r.ev
                                                  \o <<E("onConnection")>>
                                           ELSE <<E("error")>>)]
  /\ UNCHANGED ifaces

\* variant: a failed write leaves the key removed
ConnSkipSettledClears(p) ==
  /\ proc[p].pc = "setSetting"
  /\ \E stored, ok1, ok2 \in BOOLEAN :
       LET r == stopAP(plat, ok1, ok2)
       IN /\ wifiskip' = IF stored THEN "true" ELSE "absent"
          /\ plat' = r.plat
          /\ proc' = [proc EXCEPT ![p].pc = "done", ![p].result = "connected",
                        ![p].log = @ \o (IF stored THEN <<>> ELSE <<E("error")>>)
                                     \o <<E("render")>> \o r.ev
                                     \o <<E("onConnection")>>]
  /\ UNCHANGED ifaces

\* setSetting('wifiskip', true) settles: .catch(log).then(render, stopAP, callback)
ConnSkipSettled(p) ==
  /\ proc[p].pc = "setSetting"
  /\ \E stored, ok1, ok2 \in BOOLEAN :
       LET r == stopAP(plat, ok1, ok2)
       IN /\ wifiskip' = IF stored THEN "true" ELSE wifiskip
          /\ plat' = r.plat
          /\ proc' = [proc EXCEPT ![p].pc = "done", ![p].result = "connected",
                        ![p].log = @ \o (IF stored THEN <<>> ELSE <<E("error")>>)
                                     \o <<E("render")>> \o r.ev
                                     \o <<E("onConnection")>>]
  /\ UNCHANGED ifaces

\* variant: stops the AP only when the platform shows it running
ConnStopAPIfRunning(p) ==
  /\ proc[p].pc = "sleep2000"
  /\ \E ok1, ok2 \in BOOLEAN :
       LET r == IF plat.dhcp \/ plat.mode = "ap"
                  THEN stopAP(plat, ok1, ok2)
                  ELSE [plat |-> plat, ret |-> TRUE, ev |-> <<>>]
       IN /\ plat' = r.plat
          /\ proc' = [proc EXCEPT ![p].pc = "sleep5000",
                        ![p].log = @ \o r.ev \o <<T("sleep", SETTLE_DELAY)>>]
  /\ UNCHANGED <<wifiskip, ifaces>>

\* variant: the settle delay is as short as the response delay
ConnStopAPShortSettle(p) ==
  /\ proc[p].pc = "sleep2000"
  /\ \E ok1, ok2 \in BOOLEAN :
       LET r == stopAP(plat, ok1, ok2)
       IN /\ plat' = r.plat
          /\ proc' = [proc EXCEPT ![p].pc = "sleep5000",
                        ![p].log = @ \o r.ev \o <<T("sleep", RESPONSE_DELAY)>>]
  /\ UNCHANGED <<wifiskip, ifaces>>

\* sleep(2000).then(() => { stopAP(); return sleep(5000); })
ConnStopAP(p) ==
  /\ proc[p].pc = "sleep2000"
  /\ \E ok1, ok2 \in BOOLEAN :
       LET r == stopAP(plat, ok1, ok2)
       IN /\ plat' = r.plat
          /\ proc' = [proc EXCEPT ![p].pc = "sleep5000",
                        ![p].log = @ \o r.ev \o <<T("sleep", SETTLE_DELAY)>>]
  /\ UNCHANGED <<wifiskip, ifaces>>

\* variant: the result of defineNetwork is not looked at
ConnDefineIgnoresFailure(p) ==
  /\ proc[p].pc = "sleep5000"
  /\ \E ok \in BOOLEAN :
       LET r == defineNetwork(plat, ok, proc[p].ssid)
           q == [proc[p] EXCEPT !.log = @ \o r.ev]
       IN /\ plat' = r.plat
          /\ proc' = [proc EXCEPT ![p] =
               waitForWiFi([q EXCEPT !.pc = "waiting"],
                           WAIT_ATTEMPTS, WAIT_INTERVAL, r.plat, ifaces)]
  /\ UNCHANGED <<wifiskip, ifaces>>

\* .then(() => { if (!defineNetwork(...)) throw ...; else return waitForWiFi(20, 3000)... })
\* a throw lands in the trailing .catch, which logs it
ConnDefine(p) ==
  /\ proc[p].pc = "sleep5000"
  /\ \E ok \in BOOLEAN :
       LET r == defineNetwork(plat, ok, proc[p].ssid)
           q == [proc[p] EXCEPT !.log = @ \o r.ev]
       IN /\ plat' = r.plat
          /\ proc' = [proc EXCEPT ![p] =
               IF ~r.ret
                 THEN [q EXCEPT !.pc = "done", !.result = "failed",
                                !.log = @ \o <<E("error"), E("error")>>]
                 ELSE waitForWiFi([q EXCEPT !.pc = "waiting"],
                                  WAIT_ATTEMPTS, WAIT_INTERVAL, r.plat, ifaces)]
  /\ UNCHANGED <<wifiskip, ifaces>>

\* waitForWiFi(...).then(() => { WiFiSetupApp.onConnection!(); })
ConnWaitThen(p) ==
  /\ proc[p].pc = "waiting"
  /\ proc[p].st = "resolved"
  /\ proc' = [proc EXCEPT ![p].pc = "done", ![p].result = "connected",
                          ![p].log = Append(@, E("onConnection"))]
  /\ UNCHANGED <<wifiskip, plat, ifaces>>

\* variant: the trailing .catch falls back to the access point
ConnWaitCatchStartsAP(p) ==
  /\ proc[p].pc = "waiting"
  /\ proc[p].st = "rejected"
  /\ \E ok1, ok2 \in BOOLEAN :
       LET r == startAP(plat, ok1, ok2)
       IN /\ plat' = r.plat
          /\ proc' = [proc EXCEPT ![p].pc = "done", ![p].result = "failed",
                                  ![p].log = @ \o r.ev]
  /\ UNCHANGED <<wifiskip, ifaces>>

\* variant: the trailing .catch signals completion as well
ConnWaitCatchCalls(p) ==
  /\ proc[p].pc = "waiting"
  /\ proc[p].st = "rejected"
  /\ proc' = [proc EXCEPT ![p].pc = "done", ![p].result = "failed",
                          ![p].log = Append(@, E("onConnection"))]
  /\ UNCHANGED <<wifiskip, plat, ifaces>>

\* waitForWiFi rejected with no error: the trailing .catch logs nothing
ConnWaitCatch(p) ==
  /\ proc[p].pc = "waiting"
  /\ proc[p].st = "rejected"
  /\ proc' = [proc EXCEPT ![p].pc = "done", ![p].result = "failed"]
  /\ UNCHANGED <<wifiskip, plat, ifaces>>

(* --------------------------------------------------------- specification *)
\* The callers live outside this code. Operations are invoked one at a time,
\* in any order and any number of times, on whatever the platform and the
\* settings store hold.
Quiet == \A p \in Procs : proc[p].pc \in {"idle", "off"}

Init == InitOf({"recon", "conn1", "scan", "wait"})

Next ==
  \/ Quiet /\ ReconCall
  \/ ReconSettled
  \/ ReconWaitThen
  \/ ReconWaitCatch
  \/ Quiet /\ WaitCall
  \/ WaitSettled
  \/ Quiet /\ ScanCall
  \/ ScanTimerFire
  \/ ScanRender
  \/ Quiet /\ ConnSubmit("conn1")
  \/ ConnSkipSettled("conn1")
  \/ ConnStopAP("conn1")
  \/ ConnDefine("conn1")
  \/ ConnWaitThen("conn1")
  \/ ConnWaitCatch("conn1")
  \/ \E p \in WaitCallers : WaitTimerFire(p)
  \/ \E p \in Procs : Return(p)
  \/ EnvAssociation
  \/ EnvAddresses

Spec == Init /\ [][Next]_vars

\* Two form submissions. Nothing in handleConnecting looks for a submission
\* already under way, so a second POST /connecting is taken whenever it
\* arrives. The access point is up, as it is while the form is served, and
\* wlan0 either gets an address or does not.
InitOverlap ==
  /\ wifiskip = "false"
  /\ plat = [enabled |-> TRUE, mode |-> "ap", networks |-> {}, dhcp |-> TRUE]
  /\ ifaces \in {[lo |-> <<V4Int>>, wlan0 |-> s] : s \in {<<>>, <<V4Ext>>}}
  /\ proc = [p \in Procs |-> Fresh(IF p \in ConnProcs THEN "idle" ELSE "off")]

NextOverlap ==
  \E p \in ConnProcs :
    \/ ConnSubmit(p)
    \/ ConnSkipSettled(p)
    \/ ConnStopAP(p)
    \/ ConnDefine(p)
    \/ WaitTimerFire(p)
    \/ ConnWaitThen(p)
    \/ ConnWaitCatch(p)

SpecOverlap == InitOverlap /\ [][NextOverlap]_vars

(* --------------------------------------------------------- getHotspotSsid *)
\* A JavaScript string is the sequence of its characters.
Colon == ":"
Space == " "

\* String.prototype.split(sep), sep one character
RECURSIVE split(_, _)
split(s, sep) ==
  IF \E i \in 1..Len(s) : s[i] = sep
    THEN LET i == CHOOSE k \in 1..Len(s) :
                    s[k] = sep /\ \A j \in 1..(k - 1) : s[j] # sep
         IN <<SubSeq(s, 1, i - 1)>> \o split(SubSeq(s, i + 1, Len(s)), sep)
    ELSE <<s>>

\* Array.prototype.slice(start), start >= 0
slice(a, start) ==
  IF start >= Len(a) THEN <<>> ELSE SubSeq(a, start + 1, Len(a))

\* Array.prototype.join('')
RECURSIVE join(_)
join(a) == IF a = <<>> THEN <<>> ELSE Head(a) \o join(Tail(a))

\* String.prototype.toUpperCase on the characters a MAC address can hold
UpperChar(c) ==
  CASE c = "a" -> "A" [] c = "b" -> "B" [] c = "c" -> "C"
    [] c = "d" -> "D" [] c = "e" -> "E" [] c = "f" -> "F"
    [] OTHER -> c

RECURSIVE toUpperCase(_)
toUpperCase(s) ==
  IF s = <<>> THEN <<>> ELSE <<UpperChar(Head(s))>> \o toUpperCase(Tail(s))

\* Platform.getMacAddress('wlan0'): null, or the address as a string
NoMac == [present |-> FALSE, chars |-> <<>>]
MacOf(chars) == [present |-> TRUE, chars |-> chars]
\* !mac: null and the empty string are both falsy
Falsy(mac) == ~mac.present \/ mac.chars = <<>>

\* variant: slice(3), one octet too many
getHotspotSsidSlice3(base, mac) ==
  IF Falsy(mac) THEN base
  ELSE base \o <<Space>> \o toUpperCase(join(slice(split(mac.chars, Colon), 3)))

\* base is config.get('wifi.ap.ssid_base'), mac is Platform.getMacAddress('wlan0')
getHotspotSsid(base, mac) ==
  IF Falsy(mac) THEN base
  ELSE base \o <<Space>> \o toUpperCase(join(slice(split(mac.chars, Colon), 4)))

\* the configured base names and the addresses wlan0 may have
Bases == {<<"G", "a", "t", "e", "w", "a", "y">>, <<"C", "a", "n", "d", "l", "e">>}
Octets == {<<"a", "a">>, <<"e", "e">>, <<"f", "f">>, <<"9", "e">>, <<"2", "8">>,
           <<"0", "A">>, <<"C", "d">>}
MacPrefixes == {<<"a", "a", ":", "b", "b", ":", "c", "c", ":", "d", "d">>}
Macs ==
  {NoMac, MacOf(<<>>)} \cup
  {MacOf(p \o <<Colon>> \o o5 \o <<Colon>> \o o6) :
     p \in MacPrefixes, o5 \in Octets, o6 \in Octets}

\* handleCaptive, case '/hotspot.html': the SSID is computed and rendered
CaptiveHotspot ==
  /\ proc["captive"].pc = "idle"
  /\ proc' = [proc EXCEPT !["captive"].pc = "done",
                !["captive"].hotspot =
                  getHotspotSsid(proc["captive"].base, proc["captive"].mac),
                !["captive"].log = Append(@, E("render"))]
  /\ UNCHANGED <<wifiskip, plat, ifaces>>

\* GET /hotspot.html on a device with some base name and some wlan0 address
InitSsid ==
  /\ wifiskip = "false"
  /\ plat = [enabled |-> TRUE, mode |-> "ap", networks |-> {}, dhcp |-> TRUE]
  /\ ifaces = Loopback
  /\ \E b \in Bases, m \in Macs :
       proc = [p \in {"captive"} |->
                 [pc |-> "idle", base |-> b, mac |-> m, hotspot |-> <<>>,
                  log |-> <<>>]]

NextSsid == CaptiveHotspot

SpecSsid == InitSsid /\ [][NextSsid]_vars

(* ------------------------------------------------------------ properties *)
Count(log, name) == Cardinality({i \in 1..Len(log) : log[i].ev = name})
Has(log, name) == \E i \in 1..Len(log) : log[i].ev = name
Recon == proc["recon"]
Scan == proc["scan"]
APDown == ~plat.dhcp /\ plat.mode # "ap"
\* the check and setTimeout entries of a log, in order
RECURSIVE Polling(_)
Polling(log) ==
  IF log = <<>> THEN <<>>
  ELSE IF Head(log).ev \in {"check", "setTimeout"}
    THEN <<Head(log)>> \o Polling(Tail(log))
  ELSE Polling(Tail(log))

\* C1: when the stored wifiskip flag is true at the call, isWiFiConfigured is
\* resolved true as soon as the settings read has settled, and its log holds
\* no scan, no waitForWiFi, no poll, no timer and no start of the access point.
C1_SkipShortCircuits ==
  (Recon.pc \in {"waiting", "done"} /\ Recon.flagAtCall = "true") =>
    /\ Recon.pc = "done"
    /\ Recon.result = "true"
    /\ \A i \in 1..Len(Recon.log) :
         Recon.log[i].ev \notin
           {"scanWirelessNetworks", "waitForWiFi", "check", "setTimeout",
            "startAP", "setWirelessMode:ap:on", "setDhcp:on"}

\* the flag alone decides: no marker, no wired address, a network configured
C1_Witness ==
  /\ Recon.pc = "done"
  /\ Recon.flagAtCall = "true"
  /\ ~Recon.marker /\ ~Recon.lan
  /\ plat.networks # {}

\* C2 as stated: with a wired address isWiFiConfigured resolves true, and an
\* access point that was running at the call is down when it resolves.
C2_Original ==
  (Recon.pc = "done" /\ Recon.lan /\ Recon.apAtCall) =>
    (Recon.result = "true" /\ APDown)

\* C2 amended: with a wired address isWiFiConfigured resolves true without
\* waiting; if the access point was running at the call, stopAP is called
\* before it resolves, and the access point is down when that stopAP
\* returned true.
C2_WiredStopsAP ==
  (Recon.pc \in {"waiting", "done"} /\ Recon.lan) =>
    /\ Recon.pc = "done"
    /\ Recon.result = "true"
    /\ Recon.apAtCall =>
         /\ Has(Recon.log, "stopAP")
         /\ Has(Recon.log, "stopAP:ok") => APDown

\* the wired address alone decides, the access point was up and is now down
C2_Witness ==
  /\ Recon.pc = "done"
  /\ Recon.lan /\ ~Recon.marker /\ Recon.flagAtCall # "true"
  /\ Recon.apAtCall
  /\ Has(Recon.log, "stopAP:ok")
  /\ APDown

\* C3: isWiFiConfigured resolves true exactly when the flag is set, the
\* marker exists, a wired address is present or waitForWiFi(20, 3000)
\* resolved; otherwise it resolves false and startAP was called before.
C3_ResultIff ==
  Recon.pc = "done" =>
    /\ Recon.result \in {"true", "false"}
    /\ Recon.result = "true" <=>
         \/ Recon.flagAtCall = "true"
         \/ Recon.marker
         \/ Recon.lan
         \/ /\ Has(Recon.log, "waitForWiFi")
            /\ Recon.st = "resolved"
            /\ Recon.maxAttempts = 20
            /\ Recon.interval = 3000
    /\ Recon.result = "false" => Has(Recon.log, "startAP")

\* none of the four holds: false, after startAP
C3_Witness ==
  /\ Recon.pc = "done"
  /\ Recon.result = "false"
  /\ Recon.attempts = 20
  /\ Has(Recon.log, "startAP")

\* C4: before isWiFiConfigured resolves neither ensureAPStopped nor startAP
\* has been invoked more than once in total, and when it has resolved exactly
\* one of the two has been invoked, exactly once.
C4_OneTerminalAction ==
  LET n == Count(Recon.log, "ensureAPStopped") + Count(Recon.log, "startAP")
  IN /\ Recon.pc \in {"getSetting", "waiting"} => n = 0
     /\ Recon.pc = "done" => n = 1

\* resolved after polling, with ensureAPStopped as the terminal action
C4_Witness ==
  /\ Recon.pc = "done"
  /\ Recon.attempts > 1
  /\ Count(Recon.log, "ensureAPStopped") = 1
  /\ Count(Recon.log, "startAP") = 0

\* C5: when waitForWiFi rejected inside isWiFiConfigured, it resolves false
\* whatever startAP returned, and startAP ran once, each platform call of it
\* at most once.
C5_FalseWhateverStartAP ==
  (Recon.pc = "done" /\ Recon.st = "rejected") =>
    /\ Recon.result = "false"
    /\ Count(Recon.log, "startAP") = 1
    /\ Count(Recon.log, "setWirelessMode:ap:on") = 1
    /\ Count(Recon.log, "setDhcp:on") <= 1

\* startAP failed at its second platform call
C5_Witness ==
  /\ Recon.pc = "done"
  /\ Recon.st = "rejected"
  /\ Has(Recon.log, "setDhcp:on")
  /\ Has(Recon.log, "startAP:failed")

\* C6: when no network is configured, a waitForWiFi that has been called is
\* rejected with attempts = 0, no poll made and no timer set, whatever
\* maxAttempts and interval are.
C6_NoNetworkFailsAtOnce ==
  \A p \in WaitCallers :
    (Has(proc[p].log, "waitForWiFi") /\ plat.networks = {}) =>
      /\ proc[p].st = "rejected"
      /\ proc[p].attempts = 0
      /\ Count(proc[p].log, "check") = 0
      /\ Count(proc[p].log, "setTimeout") = 0

\* a direct call with a budget of several attempts
C6_Witness ==
  /\ proc["wait"].pc = "waiting"
  /\ proc["wait"].maxAttempts >= 2
  /\ proc["wait"].st = "rejected"
  /\ plat.networks = {}

\* C7: with a network configured, a poll at which the platform shows enabled
\* station mode and an IPv4, non-internal address on wlan0 resolves
\* waitForWiFi: at most maxAttempts polls were made, none after it, no timer
\* was set after it, and waitForWiFi is not rejected.
C7_AssociatedResolves ==
  \A p \in WaitCallers :
    Has(proc[p].log, "waitForWiFi") =>
      /\ proc[p].obs = "good" => proc[p].st = "resolved"
      /\ proc[p].st = "resolved" =>
           /\ proc[p].obs = "good"
           /\ proc[p].attempts \in 1..proc[p].maxAttempts
           /\ Count(proc[p].log, "check") = proc[p].attempts
           /\ Count(proc[p].log, "setTimeout") = proc[p].attempts - 1

\* resolved at the second of three polls
C7_Witness ==
  /\ proc["wait"].st = "resolved"
  /\ proc["wait"].attempts = 2
  /\ proc["wait"].maxAttempts = 3

\* C8: with a network configured, polls and interval timers alternate; while
\* no poll has seen the association a timer is pending after fewer than
\* maxAttempts polls, and waitForWiFi is rejected after exactly maxAttempts
\* polls and maxAttempts - 1 timers.
C8_ExactlyMaxAttempts ==
  \A p \in WaitCallers :
    (Has(proc[p].log, "waitForWiFi") /\ plat.networks # {}) =>
      LET w == proc[p]
          polls == Polling(w.log)
      IN /\ w.attempts \in 1..w.maxAttempts
         /\ Count(w.log, "check") = w.attempts
         /\ \A i \in 1..Len(polls) :
              polls[i] = IF i % 2 = 1 THEN E("check")
                         ELSE T("setTimeout", w.interval)
         /\ w.obs = "bad" => w.st \in {"timer", "rejected"}
         /\ w.st = "timer" =>
              /\ w.attempts < w.maxAttempts
              /\ Len(polls) = 2 * w.attempts
         /\ w.st = "rejected" =>
              /\ w.attempts = w.maxAttempts
              /\ Len(polls) = 2 * w.maxAttempts - 1

\* isWiFiConfigured's wait rejected after its 20 polls
C8_Witness ==
  /\ Recon.pc = "waiting"
  /\ Recon.st = "rejected"
  /\ Recon.attempts = 20
  /\ Count(Recon.log, "setTimeout") = 19

\* C9: scan makes at most 5 platform scans, makes another only after an
\* empty result, and resolves (it has no rejected outcome) with the first
\* non-empty result, or with the empty list once 5 scans returned empty.
C9_ScanFirstNonEmpty ==
  Scan.pc \in {"scanning", "done"} =>
    LET n == Len(Scan.returned)
    IN /\ n = Scan.attempts
       /\ n = Count(Scan.log, "scanWirelessNetworks")
       /\ n \in 1..5
       /\ \A i \in 1..(n - 1) : Scan.returned[i] = <<>>
       /\ Scan.st \in {"timer", "resolved"}
       /\ Scan.st = "timer" => (Scan.returned[n] = <<>> /\ n < 5)
       /\ Scan.st = "resolved" =>
            /\ Scan.nets = Scan.returned[n]
            /\ Scan.nets = <<>> => n = 5

\* four empty results, then a non-empty one on the 5th call
C9_Witness ==
  /\ Scan.st = "resolved"
  /\ Scan.attempts = 5
  /\ Scan.nets # <<>>

\* C10: in a non-skip submission every set-station-mode call follows a
\* stopAP call of the same submission, and stopAP has been called once the
\* 2 second delay is over.
C10_StopBeforeStation ==
  \A p \in ConnProcs :
    LET log == proc[p].log
    IN /\ \A i \in 1..Len(log) :
            log[i].ev = "setWirelessMode:sta:on" =>
              \E j \in 1..(i - 1) : log[j].ev = "stopAP"
       /\ (proc[p].pc \in {"sleep5000", "waiting", "done"} /\ ~proc[p].skip) =>
            Has(log, "stopAP")

\* no access point was running and stopAP returned false
C10_Witness ==
  /\ ~proc["conn1"].apAtCall
  /\ Has(proc["conn1"].log, "stopAP:failed")
  /\ Has(proc["conn1"].log, "setWirelessMode:sta:on")


\* the calls that change the platform
Mutations ==
  {"setWirelessMode:ap:on", "setWirelessMode:ap:off", "setWirelessMode:sta:on",
   "setWirelessMode:sta:off", "setDhcp:on", "setDhcp:off"}

\* C11 as stated: every startAP of isWiFiConfigured follows a call that stops
\* station mode.
C11_Original ==
  \A i \in 1..Len(Recon.log) :
    Recon.log[i].ev = "startAP" =>
      \E j \in 1..(i - 1) : Recon.log[j].ev = "setWirelessMode:sta:off"

\* C11 amended: every call that sets station mode follows a call that turns
\* access-point mode off, in the same submission; the startAP of
\* isWiFiConfigured follows no call that changes the platform, and its first
\* platform call is the one that turns access-point mode on.
C11_ExplicitStopOnlyBeforeStation ==
  /\ \A p \in ConnProcs : \A i \in 1..Len(proc[p].log) :
       proc[p].log[i].ev = "setWirelessMode:sta:on" =>
         \E j \in 1..(i - 1) : proc[p].log[j].ev = "setWirelessMode:ap:off"
  /\ \A i \in 1..Len(Recon.log) :
       Recon.log[i].ev = "startAP" =>
         /\ \A j \in 1..(i - 1) : Recon.log[j].ev \notin Mutations
         /\ i < Len(Recon.log)
         /\ Recon.log[i + 1].ev = "setWirelessMode:ap:on"

\* the access point was started from station mode, after polling
C11_Witness ==
  /\ Recon.pc = "done"
  /\ Has(Recon.log, "startAP:ok")
  /\ Has(Recon.log, "check")
  /\ plat.mode = "ap"


\* a credential application that succeeded: skipped, or defineNetwork
\* returned true and waitForWiFi resolved
Applied(p) ==
  \/ proc[p].skip
  \/ Has(proc[p].log, "defineNetwork:ok") /\ proc[p].st = "resolved"

\* C12 as stated, for reconciliation: an isWiFiConfigured that resolved true
\* has invoked the completion callback exactly once.
C12_Original ==
  (Recon.pc = "done" /\ Recon.result = "true") =>
    Count(Recon.log, "onConnection") = 1

\* C12 amended: a finished credential application has invoked the registered
\* completion callback exactly once when it succeeded and never when it did
\* not, an unfinished one has not invoked it, and isWiFiConfigured never
\* invokes it, whatever it resolves with.
C12_CallbackOncePerApplication ==
  /\ \A p \in ConnProcs :
       Count(proc[p].log, "onConnection") =
         IF proc[p].pc = "done" /\ Applied(p) THEN 1 ELSE 0
  /\ Count(Recon.log, "onConnection") = 0

\* a submission with credentials finished connected, and a poll was needed
C12_Witness ==
  /\ proc["conn1"].pc = "done"
  /\ ~proc["conn1"].skip
  /\ proc["conn1"].st = "resolved"
  /\ proc["conn1"].attempts >= 2
  /\ Count(proc["conn1"].log, "onConnection") = 1


\* position of the first entry called name in log, 0 when there is none
First(log, name) ==
  IF Has(log, name)
    THEN CHOOSE i \in 1..Len(log) :
           log[i].ev = name /\ \A j \in 1..(i - 1) : log[j].ev # name
    ELSE 0

\* the calls that query or wait for connectivity, or configure a network;
\* getWirelessMode is queried by check and by ensureAPStopped only
ConnectivityCalls ==
  {"waitForWiFi", "check", "ensureAPStopped", "defineNetwork",
   "defineNetwork:ok", "defineNetwork:failed", "setWirelessMode:sta:on",
   "setTimeout", "sleep", "startAP"}

\* C13: a skipped submission calls stopAP once and then the completion
\* callback once, whether or not the write of wifiskip succeeded (a failed
\* write is only logged); the access point is down when stopAP returned true;
\* and it makes no connectivity check: no getWirelessMode query, no
\* waitForWiFi, no defineNetwork, no timer.
C13_SkipStopsAndSignals ==
  \A p \in ConnProcs :
    (proc[p].pc = "done" /\ proc[p].skip) =>
      LET log == proc[p].log
      IN /\ Count(log, "stopAP") = 1
         /\ Count(log, "onConnection") = 1
         /\ First(log, "stopAP") < First(log, "onConnection")
         /\ \A i \in 1..Len(log) : log[i].ev \notin ConnectivityCalls
         /\ Has(log, "stopAP:ok") => APDown
         /\ proc[p].attempts = 0

\* the write failed, the flag is not set, and the access point was stopped
C13_Witness ==
  /\ proc["conn1"].pc = "done"
  /\ proc["conn1"].skip
  /\ Has(proc["conn1"].log, "error")
  /\ wifiskip # "true"
  /\ proc["conn1"].apAtCall
  /\ Has(proc["conn1"].log, "stopAP:ok")


\* C14: when defineNetwork returns false the submission ends there: the
\* handler has finished with the failure logged and nothing thrown past its
\* .catch, waitForWiFi was not started, the completion callback was not
\* invoked, and after the failed call nothing but logging happened.
C14_DefineFailureAborts ==
  \A p \in ConnProcs :
    Has(proc[p].log, "defineNetwork:failed") =>
      LET log == proc[p].log
          at == First(log, "defineNetwork:failed")
      IN /\ proc[p].pc = "done"
         /\ proc[p].result = "failed"
         /\ ~Has(log, "waitForWiFi") /\ ~Has(log, "check")
         /\ proc[p].attempts = 0 /\ proc[p].st = "none"
         /\ ~Has(log, "onConnection")
         /\ at < Len(log)
         /\ \A i \in (at + 1)..Len(log) : log[i].ev = "error"

\* defineNetwork failed after the access point had been stopped
C14_Witness ==
  /\ proc["conn1"].pc = "done"
  /\ Has(proc["conn1"].log, "defineNetwork:failed")
  /\ Has(proc["conn1"].log, "stopAP:ok")
  /\ proc["conn1"].ssid \notin plat.networks

\* C15: when waitForWiFi rejects after defineNetwork returned true, the
\* submission ends without retrying: it has called stopAP once, defineNetwork
\* once and waitForWiFi once, polled 20 times, never called startAP and never
\* invoked the completion callback; after defineNetwork only the polling
\* happened; and the platform still holds the submitted network and is not in
\* access-point mode.
C15_NoRetryAfterWaitFails ==
  \A p \in ConnProcs :
    (proc[p].pc = "done" /\ ~proc[p].skip /\ proc[p].st = "rejected") =>
      LET log == proc[p].log
          at == First(log, "defineNetwork:ok")
      IN /\ proc[p].result = "failed"
         /\ Count(log, "stopAP") = 1
         /\ Count(log, "startAP") = 0
         /\ Count(log, "defineNetwork") = 1
         /\ Count(log, "setWirelessMode:sta:on") = 1
         /\ Count(log, "waitForWiFi") = 1
         /\ Count(log, "check") = WAIT_ATTEMPTS
         /\ Count(log, "onConnection") = 0
         /\ at > 0
         /\ \A i \in (at + 1)..Len(log) :
              log[i].ev \in {"waitForWiFi", "check", "setTimeout"}
         /\ proc[p].ssid \in plat.networks
         /\ plat.mode # "ap"
         /\ Has(log, "stopAP:ok") => ~plat.dhcp

\* the polls ran out although defineNetwork had succeeded
C15_Witness ==
  /\ proc["conn1"].pc = "done"
  /\ proc["conn1"].st = "rejected"
  /\ proc["conn1"].attempts = WAIT_ATTEMPTS
  /\ Has(proc["conn1"].log, "defineNetwork:ok")


\* what isWiFiConfigured does once the flag has been read as not set: it
\* goes by the marker file, the wired address and waitForWiFi alone
AsWhenFlagFalse ==
  /\ ~Recon.skip
  /\ Has(Recon.log, "waitForWiFi") <=> (~Recon.marker /\ ~Recon.lan)
  /\ Recon.pc = "done" =>
       /\ Recon.result \in {"true", "false"}
       /\ Recon.result = "true" <=>
            (Recon.marker \/ Recon.lan \/ Recon.st = "resolved")
       /\ Has(Recon.log, "startAP") <=> Recon.result = "false"
       /\ Has(Recon.log, "ensureAPStopped") <=> Recon.result = "true"
       /\ Count(Recon.log, "getSetting") = 1

\* C16: when the read of wifiskip is rejected, isWiFiConfigured takes the flag
\* as not set: it still resolves, with true or false, and goes on exactly as
\* it does when the stored flag is false.
C16_FailedReadIsNotSet ==
  (Recon.pc \in {"waiting", "done"} /\ Recon.flagAtCall \in {"absent", "false"}) =>
    /\ getSetting(Recon.flagAtCall).rejected <=> Recon.flagAtCall = "absent"
    /\ AsWhenFlagFalse

\* the read was rejected, nothing else spoke for a connection, the polls ran
\* out and the promise resolved false
C16_Witness ==
  /\ Recon.pc = "done"
  /\ Recon.flagAtCall = "absent"
  /\ ~Recon.marker /\ ~Recon.lan
  /\ Recon.st = "rejected"
  /\ Recon.result = "false"


\* C17: once the stored wifiskip is true no step of the program changes it:
\* the only write is setSetting('wifiskip', true), and a write that fails
\* leaves the stored value alone.
C17_SkipStaysSet ==
  [][wifiskip = "true" => wifiskip' = "true"]_vars

\* the flag was set already when a skipped submission failed to write it
C17_Witness ==
  /\ wifiskip = "true"
  /\ proc["conn1"].pc = "done"
  /\ proc["conn1"].skip
  /\ Has(proc["conn1"].log, "error")


\* a submission that has begun to change the platform and has not finished
Applying(p) ==
  /\ proc[p].pc \notin {"idle", "off", "done"}
  /\ Has(proc[p].log, "stopAP")

\* C18: at most one credential application is in flight: while one
\* submission is between its stopAP and its end, no other submission has
\* issued a platform call of its own.
C18_OneApplicationInFlight ==
  \A p, q \in ConnProcs :
    (p # q /\ Applying(p)) =>
      \A i \in 1..Len(proc[q].log) :
        proc[q].pc = "done" \/ proc[q].log[i].ev \notin Mutations


\* the invocation of handleCaptive for /hotspot.html
Captive == proc["captive"]

\* the two characters of the octet that ends at position n of s
OctetEndingAt(s, n) == <<s[n - 1], s[n]>>

\* C19: getHotspotSsid returns the base name, a space and the last two octets
\* of the wlan0 MAC address in upper case without the colon between them
\* (base "Gateway" and aa:bb:cc:dd:ee:ff give "Gateway EEFF"), and the base
\* name alone when there is no MAC address.
C19_HotspotSsid ==
  Captive.pc = "done" =>
    LET m == Captive.mac.chars
        n == Len(m)
    IN /\ Falsy(Captive.mac) => Captive.hotspot = Captive.base
       /\ ~Falsy(Captive.mac) =>
            Captive.hotspot =
              Captive.base \o <<Space>>
                \o toUpperCase(OctetEndingAt(m, n - 3))
                \o toUpperCase(OctetEndingAt(m, n))
       /\ (Captive.base = <<"G", "a", "t", "e", "w", "a", "y">> /\ Captive.mac = MacOf(<<"a", "a", ":", "b", "b", ":", "c", "c", ":", "d", "d", ":", "e", "e", ":", "f", "f">>)) =>
            Captive.hotspot = <<"G", "a", "t", "e", "w", "a", "y", " ", "E", "E", "F", "F">>

\* the example of the specification has been computed
C19_Witness ==
  /\ Captive.pc = "done"
  /\ Captive.base = <<"G", "a", "t", "e", "w", "a", "y">>
  /\ Captive.mac = MacOf(<<"a", "a", ":", "b", "b", ":", "c", "c", ":", "d", "d", ":", "e", "e", ":", "f", "f">>)
  /\ Len(Captive.hotspot) = 12


\* C20: ensureAPStopped calls stopAP exactly when the DHCP server is enabled
\* or the wireless mode is 'ap', and otherwise changes nothing on the
\* platform; after a stopAP that returned true a further ensureAPStopped
\* finds nothing to stop and leaves the platform as it is.
C20_EnsureAPStoppedGuarded ==
  Has(Recon.log, "ensureAPStopped") =>
    /\ Count(Recon.log, "ensureAPStopped") = 1
    /\ Count(Recon.log, "stopAP") = (IF Recon.apAtCall THEN 1 ELSE 0)
    /\ ~Recon.apAtCall =>
         \A i \in 1..Len(Recon.log) : Recon.log[i].ev \notin Mutations
    /\ Has(Recon.log, "stopAP:ok") =>
         \A ok1, ok2 \in BOOLEAN :
           ensureAPStopped(plat, ok1, ok2) =
             [plat |-> plat, ev |-> <<E("ensureAPStopped")>>]

\* the access point was up at the call, the flag was set, and the stopAP of
\* ensureAPStopped returned true
C20_Witness ==
  /\ Recon.pc = "done"
  /\ Recon.apAtCall
  /\ Has(Recon.log, "stopAP:ok")
  /\ Recon.skip
  /\ plat.mode = "sta"


\* milliseconds slept in log: the sum over its sleep entries
RECURSIVE Slept(_)
Slept(log) ==
  IF log = <<>> THEN 0
  ELSE (IF Head(log).ev = "sleep" THEN Head(log).ms ELSE 0) + Slept(Tail(log))

\* milliseconds slept strictly between positions i and j of log
SleptBetween(log, i, j) ==
  IF j - i < 2 THEN 0 ELSE Slept(SubSeq(log, i + 1, j - 1))

\* C21: a submission with credentials renders, sleeps 2 seconds, calls stopAP,
\* sleeps 5 seconds and only then sets station mode: at least 2 seconds are
\* slept before stopAP, at least 5 seconds between the return of stopAP and
\* the set-station-mode call, and waitForWiFi starts only after defineNetwork
\* has returned true.
C21_DelaysBeforeStation ==
  \A p \in ConnProcs :
    (~proc[p].skip /\ proc[p].pc \notin {"idle", "off"}) =>
      LET log == proc[p].log
          stop == First(log, "stopAP")
          stopped == IF Has(log, "stopAP:ok") THEN First(log, "stopAP:ok")
                     ELSE First(log, "stopAP:failed")
          sta == First(log, "setWirelessMode:sta:on")
          wait == First(log, "waitForWiFi")
      IN /\ log[1] = E("render")
         /\ log[2] = T("sleep", RESPONSE_DELAY)
         /\ stop > 0 =>
              /\ SleptBetween(log, 0, stop) >= RESPONSE_DELAY
              /\ stopped > stop
              /\ log[stopped + 1] = T("sleep", SETTLE_DELAY)
         /\ sta > 0 =>
              /\ stop > 0 /\ stopped < sta
              /\ Count(log, "setWirelessMode:sta:on") = 1
              /\ SleptBetween(log, stopped, sta) >= SETTLE_DELAY
         /\ wait > 0 =>
              /\ Has(log, "defineNetwork:ok")
              /\ First(log, "defineNetwork:ok") < wait
              /\ sta < wait
         /\ \A i \in 1..Len(log) :
              log[i].ev = "check" => (wait > 0 /\ wait < i)

\* a submission with credentials has gone through both delays and is polling
C21_Witness ==
  /\ proc["conn1"].pc = "waiting"
  /\ ~proc["conn1"].skip
  /\ Has(proc["conn1"].log, "stopAP:ok")
  /\ Has(proc["conn1"].log, "defineNetwork:ok")
  /\ proc["conn1"].attempts = 2
  /\ Slept(proc["conn1"].log) = RESPONSE_DELAY + SETTLE_DELAY


\* the calls invocation p makes in the step
NewCalls(p) ==
  IF Len(proc'[p].log) > Len(proc[p].log)
    THEN SubSeq(proc'[p].log, Len(proc[p].log) + 1, Len(proc'[p].log))
    ELSE <<>>

\* C22: startAP and stopAP touch the DHCP server only after their
\* setWirelessMode call: a call of either that makes no DHCP call has
\* returned false and left the platform as it was; a DHCP call follows the
\* mode call of the same function, with AP mode on when it enables and off
\* when it disables; and no step turns the DHCP server on unless the
\* platform is in AP mode afterwards.
C22_DhcpAfterModeChange ==
  [][\A p \in Procs :
       LET new == NewCalls(p)
       IN /\ (Has(new, "startAP") /\ ~Has(new, "setDhcp:on")) =>
               (Has(new, "startAP:failed") /\ plat' = plat)
          /\ (Has(new, "stopAP") /\ ~Has(new, "setDhcp:off")) =>
               (Has(new, "stopAP:failed") /\ plat' = plat)
          /\ Has(new, "setDhcp:on") =>
               /\ First(new, "setWirelessMode:ap:on") > 0
               /\ First(new, "setWirelessMode:ap:on") < First(new, "setDhcp:on")
               /\ plat'.mode = "ap"
          /\ Has(new, "setDhcp:off") =>
               /\ First(new, "setWirelessMode:ap:off") > 0
               /\ First(new, "setWirelessMode:ap:off") < First(new, "setDhcp:off")
               /\ plat'.mode # "ap"
          /\ (plat'.dhcp /\ ~plat.dhcp) => plat'.mode = "ap"
          /\ (~plat'.dhcp /\ plat.dhcp) => plat'.mode # "ap"]_vars

\* stopAP returned false at its mode call and the DHCP server is still on
C22_Witness ==
  /\ proc["conn1"].pc = "sleep5000"
  /\ Has(proc["conn1"].log, "stopAP:failed")
  /\ ~Has(proc["conn1"].log, "setDhcp:off")
  /\ plat.dhcp
  /\ plat.mode = "ap"

====
